---- MODULE Spec2Model ----
(***************************************************************************)
(* State-machine model of I2cMsg (src/src/msg.rs): one message over a      *)
(* caller-supplied raw buffer, driven by an adapter that calls the cursor  *)
(* API in any order.  A panic leaves the message as it was (it is raised   *)
(* before any assignment), so a behaviour may go on after one: that is a   *)
(* caller that catches the unwind, or a test harness.                      *)
(***************************************************************************)
EXTENDS Integers, Sequences, FiniteSets, TLC

(* ---- bounds ---- *)
MaxLen == 2
MaxIdx == MaxLen
MaxCnt == MaxLen
Bytes == {7, 9}
OneByte == {7}
Addrs == {80}

(* ---- I2cMsgFlags: a flag set is a set of bits; the bits the message ---- *)
(* ---- logic tests are modelled, the others never influence it        ---- *)
I2cMasterRead == 1
I2cMasterRecvLen == 1024
FlagBits == {I2cMasterRead, I2cMasterRecvLen}
I2cMsgFlags == SUBSET FlagBits

contains(fs, f) == f \subseteq fs
toggle(fs, f) == (fs \ f) \cup (f \ fs)

remove(fs, f) == fs \ f

(* ---- usize / isize arithmetic ---- *)
\* The width of usize is the target's pointer width; 16 is the narrowest Rust
\* has, and the one whose 2^w the model checker's integers hold.  `x as usize`
\* of an isize keeps the bits: it is x modulo 2^w.
UsizeBits == 16
UsizeMod == 2 ^ UsizeBits
AsUsize(x) == x % UsizeMod
\* isize: the same width, two's complement
IsizeMax == 2 ^ (UsizeBits - 1) - 1
IsizeMin == 0 - 2 ^ (UsizeBits - 1)
\* the isize a wrapping operation leaves for the mathematical result x
AsIsize(x) == ((x - IsizeMin) % UsizeMod) + IsizeMin

VARIABLES
    debug_assertions,   \* build profile: debug_assert! and overflow checks on
    bytes,              \* the byte values this run's caller and memory use
    ctor,               \* "new" or "default"
    addr, flags, buf, buf_len, write_idx, read_idx, read_cmd_cnt,
    op, outcome, ret,   \* the last call, how it ended, what it returned
    addr0, flags0, buf_len0, buf0,  \* the arguments of the constructor
    removed,            \* union of the bits passed to remove_flag
    wlog, rlog,         \* bytes accepted by write_byte / returned by read_byte
    mbln, mblw,         \* the latest modify_buf_len: its argument, and
                        \* write_idx at the call; -1 if none
    unchecked,          \* a call ran past a false debug_assert! (release)
    cnt_nk              \* n + k: the argument n of the latest
                        \* modify_read_cmd_cnt (0 at construction) plus the
                        \* number k of inc_read_cmd_cnt calls returned since

msg == <<addr, flags, buf, buf_len, write_idx, read_idx, read_cmd_cnt>>
args == <<debug_assertions, bytes, ctor, addr0, flags0, buf_len0, buf0>>
ghost == <<removed, wlog, rlog, mbln, mblw, unchecked, cnt_nk>>
vars == <<args, msg, op, outcome, ret, ghost>>

NoRet == "none"
\* the bytes the caller allocated behind `buf`; a caller keeps buf_len within
\* them, at construction and in modify_buf_len
Cap == Cardinality(DOMAIN buf)
\* cargo's profiles switch overflow checks together with debug assertions
OverflowChecks == debug_assertions

Buffers(cap) == [0 .. cap - 1 -> bytes]

(* ---- constructors ---- *)
new_cursor_at_end(a, f, b, len) ==
    /\ ctor = "new"
    /\ addr = a /\ flags = f /\ buf = b /\ buf_len = len
    /\ write_idx = len /\ read_idx = len /\ read_cmd_cnt = 0

new(a, f, b, len) ==
    /\ ctor = "new"
    /\ addr = a /\ flags = f /\ buf = b /\ buf_len = len
    /\ write_idx = 0 /\ read_idx = 0 /\ read_cmd_cnt = 0

default ==
    /\ ctor = "default"
    /\ addr = 0 /\ flags = {} /\ buf = <<>> /\ buf_len = 0
    /\ write_idx = 0 /\ read_idx = 0 /\ read_cmd_cnt = 0

InitWith(B) ==
    /\ bytes = B
    /\ debug_assertions \in BOOLEAN
    /\ ctor \in {"new", "default"}
    /\ \/ /\ addr0 \in Addrs /\ flags0 \in I2cMsgFlags
          /\ \E cap \in 0 .. MaxLen :
                buf0 \in Buffers(cap) /\ buf_len0 \in 0 .. cap
          /\ new(addr0, flags0, buf0, buf_len0)
       \/ /\ default
          /\ addr0 = addr /\ flags0 = flags
          /\ buf_len0 = buf_len /\ buf0 = buf
    /\ op = "init" /\ outcome = "ok" /\ ret = NoRet
    /\ removed = {} /\ wlog = <<>> /\ rlog = <<>>
    /\ mbln = -1 /\ mblw = -1 /\ unchecked = FALSE
    /\ cnt_nk = 0

\* The cursor and flag logic never looks at a byte: one value stands for all.
Init == InitWith(OneByte)

\* Where the bytes themselves are what is observed: two values.
InitData == InitWith(Bytes)


(* ---- bookkeeping shared by the calls ---- *)
\* the call `o` panics with `kind` before touching the message
Fatal(o, kind) ==
    /\ op' = o /\ outcome' = kind /\ ret' = NoRet
    /\ UNCHANGED <<args, msg, removed, wlog, rlog, mbln, mblw, cnt_nk, unchecked>>

\* debug_assert!(cond) fires
Asserts(cond) == debug_assertions /\ ~cond

\* debug_assert!(cond) is compiled out and cond is false
Breach(cond) == ~debug_assertions /\ ~cond

(* ---- queries ---- *)
left_last_cursor ==
    IF contains(flags, {I2cMasterRead}) THEN write_idx ELSE read_idx

\* `self.buf_len - 1` underflows
left_last_overflow == buf_len - 1 < 0

left_last == AsUsize(left_last_cursor) = AsUsize(buf_len - 1)

read_end_cmd_cnt_only == AsUsize(read_cmd_cnt) = buf_len

read_end_idx_only == AsUsize(read_idx) = buf_len

\* the end is the cursor strictly past buf_len
read_end_strictly_past ==
    IF contains(flags, {I2cMasterRead})
    THEN AsUsize(read_cmd_cnt) > buf_len
    ELSE AsUsize(read_idx) > buf_len

read_end ==
    IF contains(flags, {I2cMasterRead})
    THEN AsUsize(read_cmd_cnt) = buf_len
    ELSE AsUsize(read_idx) = buf_len

write_end_past == AsUsize(write_idx) > buf_len

write_end == AsUsize(write_idx) = buf_len

Query(o, r) ==
    /\ op' = o /\ outcome' = "ok" /\ ret' = r
    /\ UNCHANGED <<args, msg, ghost>>

call_flags == Query("flags", flags)

call_addr == Query("addr", addr)

call_left_last ==
    IF left_last_overflow /\ OverflowChecks
    THEN Fatal("left_last", "arith")
    ELSE Query("left_last", left_last)

call_read_end == Query("read_end", read_end)

call_write_end ==
    IF Asserts(contains(flags, {I2cMasterRead}))
    THEN Fatal("write_end", "assert")
    ELSE /\ op' = "write_end" /\ outcome' = "ok" /\ ret' = write_end
         /\ unchecked' = (unchecked \/ Breach(contains(flags, {I2cMasterRead})))
         /\ UNCHANGED <<args, msg, removed, wlog, rlog, mbln, mblw, cnt_nk>>

(* ---- mutators ---- *)
remove_flag(flag) ==
    /\ op' = "remove_flag" /\ outcome' = "ok" /\ ret' = NoRet
    /\ flags' = remove(flags, flag)
    /\ removed' = removed \cup flag
    /\ UNCHANGED <<args, addr, buf, buf_len, write_idx, read_idx,
                   read_cmd_cnt, wlog, rlog, mbln, mblw, cnt_nk, unchecked>>

modify_read_cmd_cnt_one_assert(n) ==
    IF Asserts(contains(flags, {I2cMasterRecvLen}))
    THEN Fatal("modify_read_cmd_cnt", "assert")
    ELSE /\ op' = "modify_read_cmd_cnt" /\ outcome' = "ok" /\ ret' = NoRet
         /\ read_cmd_cnt' = n
         /\ cnt_nk' = n
         /\ UNCHANGED <<args, addr, flags, buf, buf_len, write_idx,
                        read_idx, removed, wlog, rlog, mbln, mblw, unchecked>>

modify_read_cmd_cnt(n) ==
    /\ IF \/ Asserts(contains(flags, {I2cMasterRecvLen}))
          \/ Asserts(contains(flags, {I2cMasterRead}))
       THEN Fatal("modify_read_cmd_cnt", "assert")
       ELSE /\ op' = "modify_read_cmd_cnt" /\ outcome' = "ok" /\ ret' = NoRet
            /\ read_cmd_cnt' = n
            /\ cnt_nk' = n
            /\ unchecked' = (unchecked \/ Breach(contains(flags, {I2cMasterRecvLen, I2cMasterRead})))
            /\ UNCHANGED <<args, addr, flags, buf, buf_len, write_idx,
                           read_idx, removed, wlog, rlog, mbln, mblw>>

\* the step is 2
inc_read_cmd_cnt_by_two ==
    /\ \/ Asserts(contains(flags, {I2cMasterRead}))
       \/ read_cmd_cnt \in -1 .. MaxCnt - 1
       \/ read_cmd_cnt = IsizeMax
    /\ IF Asserts(contains(flags, {I2cMasterRead}))
       THEN Fatal("inc_read_cmd_cnt", "assert")
       ELSE IF read_cmd_cnt >= IsizeMax - 1 /\ OverflowChecks
       THEN Fatal("inc_read_cmd_cnt", "arith")
       ELSE /\ op' = "inc_read_cmd_cnt" /\ outcome' = "ok" /\ ret' = NoRet
            /\ read_cmd_cnt' = AsIsize(read_cmd_cnt + 2)
            /\ cnt_nk' = cnt_nk + 1
            /\ unchecked' = (unchecked \/ Breach(contains(flags, {I2cMasterRead})))
            /\ UNCHANGED <<args, addr, flags, buf, buf_len, write_idx,
                           read_idx, removed, wlog, rlog, mbln, mblw>>

\* `self.read_cmd_cnt += 1`: at isize::MAX the addition overflows, which
\* panics where overflow checks are on and wraps to isize::MIN where not.
\* The count is followed up to MaxCnt, and at isize::MAX.
inc_read_cmd_cnt ==
    /\ \/ Asserts(contains(flags, {I2cMasterRead}))
       \/ read_cmd_cnt \in -1 .. MaxCnt - 1
       \/ read_cmd_cnt = IsizeMax
    /\ IF Asserts(contains(flags, {I2cMasterRead}))
       THEN Fatal("inc_read_cmd_cnt", "assert")
       ELSE IF read_cmd_cnt = IsizeMax /\ OverflowChecks
       THEN Fatal("inc_read_cmd_cnt", "arith")
       ELSE /\ op' = "inc_read_cmd_cnt" /\ outcome' = "ok" /\ ret' = NoRet
            /\ read_cmd_cnt' = AsIsize(read_cmd_cnt + 1)
            /\ cnt_nk' = cnt_nk + 1
            /\ unchecked' = (unchecked \/ Breach(contains(flags, {I2cMasterRead})))
            /\ UNCHANGED <<args, addr, flags, buf, buf_len, write_idx,
                           read_idx, removed, wlog, rlog, mbln, mblw>>

modify_buf_len_plus_one(n) ==
    IF Asserts(contains(flags, {I2cMasterRecvLen}))
    THEN Fatal("modify_buf_len", "assert")
    ELSE /\ op' = "modify_buf_len" /\ outcome' = "ok" /\ ret' = NoRet
         /\ buf_len' = n + 1
         /\ mbln' = n /\ mblw' = write_idx
         /\ unchecked' = (unchecked \/ Breach(contains(flags, {I2cMasterRecvLen})))
         /\ UNCHANGED <<args, addr, flags, buf, write_idx, read_idx,
                        read_cmd_cnt, removed, wlog, rlog, cnt_nk>>

modify_buf_len_no_assert(n) ==
    /\ op' = "modify_buf_len" /\ outcome' = "ok" /\ ret' = NoRet
    /\ buf_len' = n
    /\ mbln' = n /\ mblw' = write_idx
    /\ UNCHANGED <<args, addr, flags, buf, write_idx, read_idx,
                   read_cmd_cnt, removed, wlog, rlog, unchecked, cnt_nk>>

modify_buf_len(n) ==
    /\ IF Asserts(contains(flags, {I2cMasterRecvLen}))
       THEN Fatal("modify_buf_len", "assert")
       ELSE /\ op' = "modify_buf_len" /\ outcome' = "ok" /\ ret' = NoRet
            /\ buf_len' = n
            /\ mbln' = n /\ mblw' = write_idx
            /\ unchecked' = (unchecked \/ Breach(contains(flags, {I2cMasterRecvLen})))
            /\ UNCHANGED <<args, addr, flags, buf, write_idx, read_idx,
                           read_cmd_cnt, removed, wlog, rlog, cnt_nk>>

\* one cursor shared by both directions
write_byte_moves_both(byte) ==
    /\ Asserts(contains(flags, {I2cMasterRead})) \/ write_end
         \/ write_idx < MaxIdx
    /\ IF Asserts(contains(flags, {I2cMasterRead}))
       THEN Fatal("write_byte", "assert")
       ELSE
         /\ op' = "write_byte" /\ ret' = NoRet
         /\ unchecked' = (unchecked \/ Breach(contains(flags, {I2cMasterRead})))
         /\ UNCHANGED <<args, addr, flags, buf_len, read_cmd_cnt,
                        removed, rlog, mbln, mblw, cnt_nk>>
         /\ IF write_end
            THEN outcome' = "overflow"
                 /\ UNCHANGED <<buf, write_idx, read_idx, wlog>>
            ELSE /\ buf' = IF write_idx \in DOMAIN buf
                           THEN [buf EXCEPT ![write_idx] = byte] ELSE buf
                 /\ write_idx' = write_idx + 1
                 /\ read_idx' = write_idx + 1
                 /\ wlog' = Append(wlog, byte)
                 /\ outcome' = "ok"

write_byte(byte) ==
    /\ Asserts(contains(flags, {I2cMasterRead})) \/ write_end
         \/ write_idx < MaxIdx
    /\ IF Asserts(contains(flags, {I2cMasterRead}))
       THEN Fatal("write_byte", "assert")
       ELSE
         /\ op' = "write_byte" /\ ret' = NoRet
         /\ unchecked' = (unchecked \/ Breach(contains(flags, {I2cMasterRead})))
         /\ UNCHANGED <<args, addr, flags, buf_len, read_idx, read_cmd_cnt,
                        removed, rlog, mbln, mblw, cnt_nk>>
         /\ IF write_end
            THEN outcome' = "overflow" /\ UNCHANGED <<buf, write_idx, wlog>>
            ELSE IF write_idx \in DOMAIN buf
            THEN \* *self.buf.offset(self.write_idx) = byte
                 /\ buf' = [buf EXCEPT ![write_idx] = byte]
                 /\ write_idx' = write_idx + 1
                 /\ wlog' = Append(wlog, byte)
                 /\ outcome' = "ok"
            ELSE \* store outside the allocation: undefined behaviour
                 \/ /\ outcome' = "ok"
                    /\ write_idx' = write_idx + 1
                    /\ wlog' = Append(wlog, byte)
                    /\ UNCHANGED buf
                 \/ /\ outcome' = "fault"
                    /\ UNCHANGED <<buf, write_idx, wlog>>

\* the cursor moves before the bounds check
read_byte_advance_then_check ==
    /\ Asserts(~contains(flags, {I2cMasterRead})) \/ read_end
         \/ read_idx < MaxIdx
    /\ IF Asserts(~contains(flags, {I2cMasterRead}))
       THEN Fatal("read_byte", "assert")
       ELSE
         /\ op' = "read_byte"
         /\ unchecked' = (unchecked \/ Breach(~contains(flags, {I2cMasterRead})))
         /\ UNCHANGED <<args, addr, flags, buf, buf_len, write_idx,
                        read_cmd_cnt, removed, wlog, mbln, mblw, cnt_nk>>
         /\ IF read_end
            THEN outcome' = "overflow" /\ ret' = NoRet
                 /\ read_idx' = read_idx + 1
                 /\ UNCHANGED rlog
            ELSE IF read_idx \in DOMAIN buf
            THEN \* let byte = *self.buf.offset(self.read_idx)
                 /\ ret' = buf[read_idx]
                 /\ read_idx' = read_idx + 1
                 /\ rlog' = Append(rlog, buf[read_idx])
                 /\ outcome' = "ok"
            ELSE \* load outside the allocation: undefined behaviour
                 \/ \E byte \in bytes :
                        /\ ret' = byte
                        /\ read_idx' = read_idx + 1
                        /\ rlog' = Append(rlog, byte)
                        /\ outcome' = "ok"
                 \/ /\ outcome' = "fault" /\ ret' = NoRet
                    /\ UNCHANGED <<read_idx, rlog>>

\* without debug_assert!(!self.flags.contains(I2cMasterRead))
read_byte_no_assert ==
    /\ read_end \/ read_idx < MaxIdx
    /\ IF FALSE
       THEN Fatal("read_byte", "assert")
       ELSE
         /\ op' = "read_byte"
         /\ UNCHANGED unchecked
         /\ UNCHANGED <<args, addr, flags, buf, buf_len, write_idx,
                        read_cmd_cnt, removed, wlog, mbln, mblw, cnt_nk>>
         /\ IF read_end
            THEN outcome' = "overflow" /\ ret' = NoRet
                 /\ UNCHANGED <<read_idx, rlog>>
            ELSE IF read_idx \in DOMAIN buf
            THEN \* let byte = *self.buf.offset(self.read_idx)
                 /\ ret' = buf[read_idx]
                 /\ read_idx' = read_idx + 1
                 /\ rlog' = Append(rlog, buf[read_idx])
                 /\ outcome' = "ok"
            ELSE \* load outside the allocation: undefined behaviour
                 \/ \E byte \in bytes :
                        /\ ret' = byte
                        /\ read_idx' = read_idx + 1
                        /\ rlog' = Append(rlog, byte)
                        /\ outcome' = "ok"
                 \/ /\ outcome' = "fault" /\ ret' = NoRet
                    /\ UNCHANGED <<read_idx, rlog>>

read_byte ==
    /\ Asserts(~contains(flags, {I2cMasterRead})) \/ read_end
         \/ read_idx < MaxIdx
    /\ IF Asserts(~contains(flags, {I2cMasterRead}))
       THEN Fatal("read_byte", "assert")
       ELSE
         /\ op' = "read_byte"
         /\ unchecked' = (unchecked \/ Breach(~contains(flags, {I2cMasterRead})))
         /\ UNCHANGED <<args, addr, flags, buf, buf_len, write_idx,
                        read_cmd_cnt, removed, wlog, mbln, mblw, cnt_nk>>
         /\ IF read_end
            THEN outcome' = "overflow" /\ ret' = NoRet
                 /\ UNCHANGED <<read_idx, rlog>>
            ELSE IF read_idx \in DOMAIN buf
            THEN \* let byte = *self.buf.offset(self.read_idx)
                 /\ ret' = buf[read_idx]
                 /\ read_idx' = read_idx + 1
                 /\ rlog' = Append(rlog, buf[read_idx])
                 /\ outcome' = "ok"
            ELSE \* load outside the allocation: undefined behaviour
                 \/ \E byte \in bytes :
                        /\ ret' = byte
                        /\ read_idx' = read_idx + 1
                        /\ rlog' = Append(rlog, byte)
                        /\ outcome' = "ok"
                 \/ /\ outcome' = "fault" /\ ret' = NoRet
                    /\ UNCHANGED <<read_idx, rlog>>

Next ==
    \/ \E f \in I2cMsgFlags : remove_flag(f)
    \/ \E n \in -1 .. MaxCnt : modify_read_cmd_cnt(n)
    \/ inc_read_cmd_cnt
    \/ \E n \in 0 .. Cap : modify_buf_len(n)
    \/ \E b \in bytes : write_byte(b)
    \/ read_byte
    \/ call_flags
    \/ call_addr
    \/ call_left_last
    \/ call_read_end
    \/ call_write_end

Spec == Init /\ [][Next]_vars

\* A caller that only writes (and asks whether it is done).
NextWrite ==
    \/ \E b \in bytes : write_byte(b)
    \/ call_write_end

SpecWrite == InitData /\ [][NextWrite]_vars

\* A caller that only reads (and asks whether it is done).
NextRead ==
    \/ read_byte
    \/ call_read_end

SpecRead == InitData /\ [][NextRead]_vars

\* A message from I2cMsg::default(): its buffer is null, so every length a
\* caller can pass to modify_buf_len is tried, not only those within the
\* allocation.
InitDefault == Init /\ ctor = "default"

NextDefault ==
    \/ Next
    \/ \E n \in 1 .. MaxLen : modify_buf_len(n)

SpecDefault == InitDefault /\ [][NextDefault]_vars

\* The read-command counter alone, its arguments up to isize::MAX.
CntArgs == (-1 .. MaxCnt) \cup {IsizeMax}

NextCnt ==
    \/ \E n \in CntArgs : modify_read_cmd_cnt(n)
    \/ inc_read_cmd_cnt
    \/ call_read_end

SpecCnt == Init /\ [][NextCnt]_vars

(***************************************************************************)
(* C1: in every state reached without running past a failed assertion,     *)
(* both cursors lie between 0 and buf_len, also after modify_buf_len is    *)
(* called with a value below the current cursor.                           *)
(***************************************************************************)
C1_CursorsWithinLen ==
    ~unchecked =>
        /\ 0 <= write_idx /\ write_idx <= buf_len
        /\ 0 <= read_idx /\ read_idx <= buf_len

(***************************************************************************)
(* C2: a write_byte or read_byte call whose cursor is at or beyond buf_len *)
(* panics, in either build: a call that returned normally stored or loaded *)
(* at an index below buf_len and left its cursor at most at buf_len.       *)
(* Stated over the runs that respect every flag precondition, where the    *)
(* two builds behave alike.                                                *)
(***************************************************************************)
C2_OverrunAlwaysFatal ==
    ~unchecked =>
        /\ op = "write_byte" /\ outcome = "ok" =>
                write_idx - 1 < buf_len /\ write_idx <= buf_len
        /\ op = "read_byte" /\ outcome = "ok" =>
                read_idx - 1 < buf_len /\ read_idx <= buf_len

(***************************************************************************)
(* C3: on a message constructed with I2cMasterRead and without             *)
(* I2cMasterRecvLen over a buffer of length n, a caller that only writes   *)
(* gets n successful write_byte calls, byte i lands at position i-1,       *)
(* write_end() is then true, and every call after the n-th panics.         *)
(***************************************************************************)
C3_WriteFillsBuffer ==
    (I2cMasterRead \in flags0 /\ I2cMasterRecvLen \notin flags0) =>
        /\ Len(wlog) <= buf_len0
        /\ write_idx = Len(wlog)
        /\ \A i \in 1 .. Len(wlog) : buf[i - 1] = wlog[i]
        /\ write_end <=> Len(wlog) = buf_len0
        /\ op = "write_byte" =>
              /\ outcome \in {"ok", "overflow"}
              /\ outcome = "overflow" => Len(wlog) = buf_len0
        /\ op = "write_end" =>
              outcome = "ok" /\ ret = (Len(wlog) = buf_len0)

C3_Witness ==
    /\ flags0 = {I2cMasterRead} /\ buf_len0 = MaxLen
    /\ op = "write_byte" /\ outcome = "overflow"
    /\ Len(wlog) = MaxLen /\ wlog[1] # wlog[MaxLen]
    /\ \A i \in 1 .. MaxLen : buf[i - 1] = wlog[i]

(***************************************************************************)
(* C4: on a message constructed without I2cMasterRead over a buffer of     *)
(* length n, a caller that only reads gets buf[0], ..., buf[n-1] from the  *)
(* first n read_byte calls, read_end() is then true, and every call after  *)
(* the n-th panics.                                                        *)
(***************************************************************************)
C4_ReadDrainsBuffer ==
    I2cMasterRead \notin flags0 =>
        /\ Len(rlog) <= buf_len0
        /\ read_idx = Len(rlog)
        /\ \A i \in 1 .. Len(rlog) : rlog[i] = buf0[i - 1]
        /\ read_end <=> Len(rlog) = buf_len0
        /\ op = "read_byte" =>
              /\ outcome \in {"ok", "overflow"}
              /\ outcome = "overflow" => Len(rlog) = buf_len0
              /\ outcome = "ok" => ret = buf0[read_idx - 1]
        /\ op = "read_end" =>
              outcome = "ok" /\ ret = (Len(rlog) = buf_len0)

C4_Witness ==
    /\ I2cMasterRead \notin flags0 /\ buf_len0 = MaxLen
    /\ op = "read_byte" /\ outcome = "overflow"
    /\ Len(rlog) = MaxLen /\ rlog[1] # rlog[MaxLen]
    /\ \A i \in 1 .. MaxLen : rlog[i] = buf0[i - 1]

(***************************************************************************)
(* C5: on a message with I2cMasterRead and I2cMasterRecvLen, after         *)
(* modify_buf_len(n) is called while write_idx = w <= n, exactly n - w     *)
(* further write_byte calls succeed and the next one panics.               *)
(***************************************************************************)
C5_RecvLenResize ==
    (contains(flags, {I2cMasterRead, I2cMasterRecvLen})
        /\ mblw >= 0 /\ mblw <= mbln) =>
        /\ write_idx - mblw <= mbln - mblw
        /\ Len(wlog) = write_idx
        /\ op = "write_byte" =>
              /\ outcome \in {"ok", "overflow"}
              /\ outcome = "overflow" => write_idx - mblw = mbln - mblw

C5_Witness ==
    /\ contains(flags, {I2cMasterRead, I2cMasterRecvLen})
    /\ buf_len0 = 1 /\ mbln = MaxLen /\ mblw = 0
    /\ op = "write_byte" /\ outcome = "overflow"
    /\ write_idx = buf_len

(***************************************************************************)
(* C6: with debug assertions enabled, a call made outside its flag         *)
(* precondition ends in the assertion failure: modify_read_cmd_cnt without *)
(* I2cMasterRecvLen or without I2cMasterRead, modify_buf_len without       *)
(* I2cMasterRecvLen, inc_read_cmd_cnt, write_end and write_byte without    *)
(* I2cMasterRead, read_byte with I2cMasterRead.                            *)
(***************************************************************************)
C6_ContractViolationAsserts ==
    debug_assertions =>
        /\ (op = "modify_read_cmd_cnt"
                /\ ~contains(flags, {I2cMasterRecvLen, I2cMasterRead}))
             => outcome = "assert"
        /\ (op = "modify_buf_len" /\ I2cMasterRecvLen \notin flags)
             => outcome = "assert"
        /\ (op \in {"inc_read_cmd_cnt", "write_end", "write_byte"}
                /\ I2cMasterRead \notin flags)
             => outcome = "assert"
        /\ (op = "read_byte" /\ I2cMasterRead \in flags)
             => outcome = "assert"

C6_Witness ==
    /\ debug_assertions
    /\ op = "modify_read_cmd_cnt" /\ outcome = "assert"
    /\ I2cMasterRead \in flags /\ I2cMasterRecvLen \notin flags

(***************************************************************************)
(* C7: left_last() never fails, and returns true exactly when the active   *)
(* cursor (write_idx with I2cMasterRead, read_idx without) equals          *)
(* buf_len - 1; so never for an empty buffer.                              *)
(***************************************************************************)
C7_LeftLastTotal ==
    op = "left_last" =>
        /\ outcome = "ok"
        /\ ret = (IF I2cMasterRead \in flags
                  THEN write_idx = buf_len - 1
                  ELSE read_idx = buf_len - 1)

(***************************************************************************)
(* C8: read_end() is true iff read_cmd_cnt = buf_len on a message with     *)
(* I2cMasterRead and iff read_idx = buf_len on one without; write_end()    *)
(* on a message with I2cMasterRead is true iff write_idx = buf_len.        *)
(***************************************************************************)
C8_EndQueries ==
    /\ read_end <=> (IF I2cMasterRead \in flags
                     THEN read_cmd_cnt = buf_len
                     ELSE read_idx = buf_len)
    /\ op = "read_end" =>
          /\ outcome = "ok"
          /\ ret = (IF I2cMasterRead \in flags
                    THEN read_cmd_cnt = buf_len
                    ELSE read_idx = buf_len)
    /\ I2cMasterRead \in flags =>
          /\ write_end <=> write_idx = buf_len
          /\ op = "write_end" =>
                outcome = "ok" /\ ret = (write_idx = buf_len)

C8_Witness ==
    /\ op = "read_end" /\ ret = TRUE
    /\ I2cMasterRead \in flags
    /\ read_cmd_cnt = buf_len /\ buf_len > 0 /\ read_idx # buf_len

(***************************************************************************)
(* C9: flags only lose bits.  remove_flag(f) clears exactly the bits of f, *)
(* changes nothing when they are already clear, no call sets a bit, and    *)
(* flags() is always the construction flags minus every bit removed.       *)
(***************************************************************************)
C9_FlagsOnlyLoseBits ==
    /\ [](flags = flags0 \ removed)
    /\ [](op = "flags" => ret = flags0 \ removed)
    /\ [][flags' \subseteq flags]_vars
    /\ [][\A f \in I2cMsgFlags :
            remove_flag(f) =>
                /\ flags' = flags \ f
                /\ (f \cap flags = {}) => UNCHANGED msg]_vars

C9_Witness ==
    /\ op = "remove_flag"
    /\ flags0 = {I2cMasterRead, I2cMasterRecvLen}
    /\ removed = {I2cMasterRead}
    /\ flags = {I2cMasterRecvLen}

(***************************************************************************)
(* C10: buf_len changes only through a modify_buf_len call made while      *)
(* I2cMasterRecvLen is set.  Over the runs in which no call ran past a     *)
(* false assertion, a message constructed without I2cMasterRecvLen keeps   *)
(* its construction buf_len, and no call other than modify_buf_len ever    *)
(* changes buf_len.                                                        *)
(***************************************************************************)
C10_BufLenFrame ==
    /\ []((~unchecked /\ I2cMasterRecvLen \notin flags0)
            => buf_len = buf_len0)
    /\ [][buf_len' # buf_len =>
            /\ op' = "modify_buf_len"
            /\ \E n \in 0 .. Cap : modify_buf_len(n)
            /\ I2cMasterRecvLen \in flags \/ unchecked']_vars

C10_Witness ==
    /\ ~unchecked /\ debug_assertions
    /\ I2cMasterRecvLen \notin flags0
    /\ op = "modify_buf_len" /\ outcome = "assert"
    /\ buf_len = buf_len0 /\ buf_len > 0

(***************************************************************************)
(* C11: I2cMsg::new(addr, flags, buf, buf_len) always succeeds and yields  *)
(* both cursors and read_cmd_cnt at 0 with addr, flags and buf_len equal   *)
(* to its arguments; I2cMsg::default() yields addr 0, empty flags,         *)
(* buf_len 0, no buffer, and the same zero cursors and counter.            *)
(***************************************************************************)
C11_Construction ==
    op = "init" =>
        /\ outcome = "ok"
        /\ write_idx = 0 /\ read_idx = 0 /\ read_cmd_cnt = 0
        /\ ctor = "new" =>
              /\ addr = addr0 /\ flags = flags0
              /\ buf = buf0 /\ buf_len = buf_len0
        /\ ctor = "default" =>
              addr = 0 /\ flags = {} /\ buf_len = 0 /\ Cap = 0

C11_Witness ==
    /\ op = "init" /\ ctor = "new"
    /\ addr = 80 /\ flags = FlagBits /\ buf_len = MaxLen
    /\ write_idx = 0 /\ read_idx = 0 /\ read_cmd_cnt = 0

(***************************************************************************)
(* C12: write_idx and read_idx are monotonic and independent.  Neither     *)
(* ever decreases; a successful write_byte adds exactly 1 to write_idx and *)
(* leaves read_idx alone; a successful read_byte adds exactly 1 to         *)
(* read_idx and leaves write_idx alone; no other call changes either.      *)
(***************************************************************************)
C12_CursorsMonotonic ==
    [][/\ write_idx' >= write_idx /\ read_idx' >= read_idx
       /\ (op' = "write_byte" /\ outcome' = "ok")
            => write_idx' = write_idx + 1 /\ read_idx' = read_idx
       /\ (op' = "read_byte" /\ outcome' = "ok")
            => read_idx' = read_idx + 1 /\ write_idx' = write_idx
       /\ write_idx' # write_idx
            => op' = "write_byte" /\ outcome' = "ok"
       /\ read_idx' # read_idx
            => op' = "read_byte" /\ outcome' = "ok"]_vars

C12_Witness ==
    /\ write_idx = MaxIdx /\ read_idx = MaxIdx
    /\ op = "read_byte" /\ outcome = "ok"
    /\ Len(wlog) = MaxIdx /\ Len(rlog) = MaxIdx

(***************************************************************************)
(* C13, as written: modify_read_cmd_cnt(n) sets read_cmd_cnt to n and each *)
(* inc_read_cmd_cnt adds exactly 1, so read_cmd_cnt = n + k after          *)
(* modify_read_cmd_cnt(n) and k inc_read_cmd_cnt calls, whatever n and k   *)
(* are: an inc_read_cmd_cnt that passes its flag assertion returns, and    *)
(* the counter is the sum.                                                 *)
(***************************************************************************)
C13_CountIsSum ==
    /\ read_cmd_cnt = cnt_nk
    /\ op = "inc_read_cmd_cnt" => outcome \in {"ok", "assert"}

(***************************************************************************)
(* C13, amended: on a message with I2cMasterRead (and, for modify,         *)
(* I2cMasterRecvLen), as long as n + k does not exceed isize::MAX,         *)
(* read_cmd_cnt = n + k after modify_read_cmd_cnt(n) and k                 *)
(* inc_read_cmd_cnt calls; both calls leave flags, buf_len, both cursors   *)
(* and the buffer unchanged; read_end() is true exactly when n + k =       *)
(* buf_len, so on a fresh read message of fixed length L it first becomes  *)
(* true right after the L-th inc_read_cmd_cnt.  At isize::MAX the next     *)
(* inc_read_cmd_cnt panics on the overflow where overflow checks are on    *)
(* and wraps to isize::MIN where they are off.                             *)
(***************************************************************************)
C13_CountIsSumInRange ==
    /\ [](/\ cnt_nk <= IsizeMax => read_cmd_cnt = cnt_nk
          /\ cnt_nk > IsizeMax =>
                /\ ~OverflowChecks
                /\ cnt_nk = IsizeMax + 1 /\ read_cmd_cnt = IsizeMin
          /\ (op = "inc_read_cmd_cnt" /\ outcome \notin {"ok", "assert"}) =>
                /\ outcome = "arith" /\ OverflowChecks
                /\ read_cmd_cnt = IsizeMax
          /\ (contains(flags, {I2cMasterRead}) /\ cnt_nk <= IsizeMax) =>
                (read_end <=> cnt_nk = buf_len)
          /\ (contains(flags0, {I2cMasterRead}) /\ ~unchecked
                /\ I2cMasterRecvLen \notin flags0) =>
                /\ buf_len = buf_len0 /\ cnt_nk \in 0 .. MaxCnt
                /\ contains(flags, {I2cMasterRead}) =>
                      (read_end <=> cnt_nk = buf_len0))
    /\ [][op' \in {"modify_read_cmd_cnt", "inc_read_cmd_cnt"} =>
            UNCHANGED <<addr, flags, buf, buf_len, write_idx, read_idx>>]_vars

C13_Witness ==
    /\ op = "inc_read_cmd_cnt" /\ outcome = "ok" /\ ~unchecked
    /\ contains(flags, {I2cMasterRead, I2cMasterRecvLen})
    /\ buf_len = MaxLen /\ read_cmd_cnt = MaxLen /\ cnt_nk = MaxLen
    /\ read_end

(***************************************************************************)
(* C14: every fatal outcome leaves the message untouched.  When write_byte *)
(* or read_byte panics because the end was reached, or any call fails its  *)
(* flag assertion, addr, flags, buf_len, write_idx, read_idx, read_cmd_cnt *)
(* and every buffer byte keep the values they had before the call.         *)
(***************************************************************************)
C14_FatalLeavesMessage ==
    [][outcome' \in {"overflow", "assert"} => UNCHANGED msg]_vars

C14_Witness ==
    /\ op = "read_byte" /\ outcome = "overflow"
    /\ I2cMasterRead \notin flags
    /\ read_idx = MaxLen /\ buf_len = MaxLen /\ Len(rlog) = MaxLen

(***************************************************************************)
(* C15: the buffer is modified only by write_byte and only at one          *)
(* position.  A write_byte(b) that returns changes exactly the buffer byte *)
(* at index write_idx (its value before the call) to b and leaves every    *)
(* other buffer byte unchanged; every other call leaves every buffer byte  *)
(* and addr unchanged.  Stated over the runs that respect every flag       *)
(* precondition.                                                           *)
(***************************************************************************)
C15_BufferFrame ==
    [][~unchecked' =>
          IF op' = "write_byte" /\ outcome' = "ok"
          THEN /\ write_idx \in DOMAIN buf
               /\ buf' = [buf EXCEPT ![write_idx] = wlog'[Len(wlog')]]
          ELSE buf' = buf /\ addr' = addr]_vars

(***************************************************************************)
(* C16: a message created by I2cMsg::default() never dereferences its      *)
(* buffer.  With debug assertions enabled, in every state reachable from   *)
(* it every write_byte and read_byte call is fatal, flags never gain       *)
(* I2cMasterRecvLen and buf_len never leaves 0.                            *)
(***************************************************************************)
C16_DefaultNeverDereferences ==
    (ctor = "default" /\ debug_assertions) =>
        /\ op \in {"write_byte", "read_byte"} =>
              outcome \in {"assert", "overflow"}
        /\ I2cMasterRecvLen \notin flags
        /\ buf_len = 0 /\ Cap = 0
        /\ write_idx = 0 /\ read_idx = 0
        /\ wlog = <<>> /\ rlog = <<>>

C16_Witness ==
    /\ ctor = "default" /\ debug_assertions
    /\ op = "read_byte" /\ outcome = "overflow"
    /\ flags = {} /\ buf_len = 0 /\ read_idx = 0 /\ rlog = <<>>

(***************************************************************************)
(* C17: completion is stable for a read message.  On a message with        *)
(* I2cMasterRead, once read_end() is true it is still true after any       *)
(* inc_read_cmd_cnt, write_byte or query call: the count of issued read    *)
(* commands never overshoots buf_len.  Stated over the runs that respect   *)
(* every flag precondition.                                                *)
(***************************************************************************)
C17_ReadEndStable ==
    [][(/\ contains(flags, {I2cMasterRead}) /\ ~unchecked'
        /\ read_end
        /\ op' \in {"inc_read_cmd_cnt", "write_byte", "flags", "addr",
                    "left_last", "read_end", "write_end"})
        => read_end']_vars

(***************************************************************************)
(* C18, as written: a message uses only one cursor over its lifetime.  In  *)
(* every state reached without an assertion failure at most one of         *)
(* write_idx and read_idx is non-zero.                                     *)
(***************************************************************************)
C18_OneCursorForLife ==
    ~unchecked => (write_idx = 0 \/ read_idx = 0)

(***************************************************************************)
(* C18, amended: a message uses one cursor at a time, the one selected by  *)
(* I2cMasterRead as it is now.  In runs without an assertion failure       *)
(* write_idx moves only while I2cMasterRead is set and read_idx only while *)
(* it is clear; the direction switches at most once, from writing to       *)
(* reading, by remove_flag(I2cMasterRead), and only then can both cursors  *)
(* be non-zero.                                                            *)
(***************************************************************************)
C18_OneCursorAtATime ==
    /\ [](~unchecked =>
            /\ write_idx # 0 => I2cMasterRead \in flags0
            /\ contains(flags, {I2cMasterRead}) => read_idx = 0
            /\ (write_idx # 0 /\ read_idx # 0) =>
                  /\ I2cMasterRead \in removed
                  /\ I2cMasterRead \notin flags)
    /\ [][~unchecked' =>
            /\ write_idx' # write_idx => contains(flags, {I2cMasterRead})
            /\ read_idx' # read_idx => ~contains(flags, {I2cMasterRead})
            /\ contains(flags', {I2cMasterRead})
                  => contains(flags, {I2cMasterRead})]_vars

C18_Witness ==
    /\ ~unchecked /\ debug_assertions
    /\ write_idx > 0 /\ read_idx > 0
    /\ I2cMasterRead \in flags0 /\ I2cMasterRead \in removed
    /\ op = "read_byte" /\ outcome = "ok"

====
